---------------------------- MODULE Spec2Model ----------------------------
(***************************************************************************)
(* Duty allocation: the slot allocator in its two copies                   *)
(* (allocator.py generate_duty_list, app.py generate_slot_duty) and the    *)
(* centre-sheet handler of app.py with generate_centre_duty.               *)
(*                                                                         *)
(* Room and teacher identifiers are opaque to the code (only compared and  *)
(* hashed), so an input list is represented up to renaming: identifiers    *)
(* are 1, 2, ... numbered by first occurrence.  Lists with repeated        *)
(* identifiers are included.  The marker "No Available Teacher" is the     *)
(* value Unassigned, which is no identifier.                               *)
(*                                                                         *)
(* random.choice(xs) is a choice of a position of xs; the positions drawn  *)
(* are logged in picks, so that a second call driven by the same random    *)
(* source can be replayed (SpecReplay).                                    *)
(***************************************************************************)
EXTENDS Integers, Sequences, FiniteSets

MaxRooms == 2
MaxSlots == 2
MaxTeachers == 4
MaxCells == 4

\* st.number_input("Number of Rooms", min_value=1, max_value=50)
MinRoomsInput == 1
MaxRoomsInput == 50

VARIABLES
    entry,             \* which entry point runs
    rooms,             \* argument: list of room identifiers
    teachers,          \* argument: list of teacher identifiers
    slots,             \* argument: number of slots
    pc,                \* position in the running function
    max_duties,        \* local of the allocator
    duty_table,        \* local: room -> list of teacher | Unassigned
    teacher_count,     \* local: teacher -> duties so far
    slot_assignments,  \* local: slot -> list of teachers
    ri,                \* position of the room loop (1-based)
    si,                \* value of the slot loop variable (0-based)
    result,            \* the returned pair, <<>> until the return
    run,               \* 1: first call, 2: second call on the same random source
    picks,             \* positions drawn by random.choice in the first call
    pos,               \* number of draws taken in the current call
    prev,              \* what the first call returned
    num_rooms,         \* centre sheet: the number input
    index,             \* centre sheet: local of generate_centre_duty
    data               \* centre sheet: rows built so far

vars == <<entry, rooms, teachers, slots, pc, max_duties, duty_table,
          teacher_count, slot_assignments, ri, si, result, run, picks, pos,
          prev, num_rooms, index, data>>

allocVars == <<max_duties, duty_table, teacher_count, slot_assignments, ri, si>>
centreVars == <<num_rooms, index, data>>
replayVars == <<run, picks, pos, prev>>
argVars == <<entry, rooms, teachers, slots>>

-----------------------------------------------------------------------------
(* Helpers *)

Unassigned == 0

Range(s) == {s[i] : i \in 1..Len(s)}

InList(x, s) == \E i \in 1..Len(s) : s[i] = x

Distinct(s) == \A i, j \in 1..Len(s) : i # j => s[i] # s[j]

MaxOf(S) == CHOOSE x \in S : \A y \in S : y <= x

\* Lists of length n up to renaming of their identifiers.
Canonical(n) ==
    {s \in [1..n -> 1..n] :
        \A i \in 1..n : s[i] <= 1 + MaxOf({0} \cup {s[j] : j \in 1..(i-1)})}

RoomLists == UNION {Canonical(n) : n \in 0..MaxRooms}

TeacherLists == UNION {Canonical(n) : n \in 0..MaxTeachers}

\* math.ceil(a / b) for a >= 0, b > 0 (exact for the sizes the UI admits).
CeilDivFloor(a, b) == a \div b
CeilDivPlusOne(a, b) == (a \div b) + 1
CeilDivRound(a, b) == (2 * a + b) \div (2 * b)
CeilDiv(a, b) == (a + b - 1) \div b

calculate_max_duties(nr, ns, nt) ==
    IF nt = 0 THEN 0 ELSE CeilDiv(nr * ns, nt)

-----------------------------------------------------------------------------
(* The slot allocator *)

EligibleNoSlotCheck(t) ==
    /\ teacher_count[t] < max_duties
    /\ ~InList(t, duty_table[rooms[ri]])
EligibleNoRoomCheck(t) ==
    /\ teacher_count[t] < max_duties
    /\ ~InList(t, slot_assignments[si])
EligibleUpToCap(t) ==
    /\ teacher_count[t] <= max_duties
    /\ ~InList(t, slot_assignments[si])
    /\ ~InList(t, duty_table[rooms[ri]])
\* the filter of the list comprehension, at the cell (rooms[ri], si)
Eligible(t) ==
    /\ teacher_count[t] < max_duties
    /\ ~InList(t, slot_assignments[si])
    /\ ~InList(t, duty_table[rooms[ri]])

available == SelectSeq(teachers, Eligible)

StaleTeacherCount ==
    IF DOMAIN teacher_count = Range(teachers)
    THEN teacher_count
    ELSE [t \in Range(teachers) |-> 0]
InitTeacherCount == [t \in Range(teachers) |-> 0]

InitSlotAssignments == [s \in 0..(slots - 1) |-> <<>>]

InitLocals(cap) ==
    /\ max_duties' = cap
    /\ duty_table' = <<>>
    /\ teacher_count' = InitTeacherCount
    /\ slot_assignments' = InitSlotAssignments
    /\ ri' = 1
    /\ si' = 0
    /\ pos' = 0

\* allocator.py: generate_duty_list up to the loop
CallDutyList ==
    /\ entry = "generate_duty_list"
    /\ pc = "call"
    /\ IF Len(teachers) = 0
       THEN /\ result' = <<<<>>, 0>>
            /\ pc' = "done"
            /\ pos' = 0
            /\ UNCHANGED allocVars
       ELSE /\ InitLocals(CeilDiv(Len(rooms) * slots, Len(teachers)))
            /\ pc' = "room"
            /\ UNCHANGED result
    /\ UNCHANGED <<argVars, run, picks, prev, centreVars>>

\* app.py: generate_slot_duty up to the loop
CallSlotDuty ==
    /\ entry = "generate_slot_duty"
    /\ pc = "call"
    /\ InitLocals(calculate_max_duties(Len(rooms), slots, Len(teachers)))
    /\ pc' = "room"
    /\ UNCHANGED <<argVars, result, run, picks, prev, centreVars>>

\* for room in rooms: duty_table[room] = []
EnterRoom ==
    /\ pc = "room"
    /\ ri <= Len(rooms)
    /\ duty_table' = [r \in DOMAIN duty_table \cup {rooms[ri]} |->
                        IF r = rooms[ri] THEN <<>> ELSE duty_table[r]]
    /\ si' = 0
    /\ pc' = "slot"
    /\ UNCHANGED <<argVars, max_duties, teacher_count, slot_assignments, ri,
                   result, replayVars, centreVars>>

\* the position random.choice returns for a list of n items
Choice(n, k) ==
    IF run = 1
    THEN k \in 1..n
    ELSE IF pos < Len(picks)
         THEN k = ((picks[pos + 1] - 1) % n) + 1
         ELSE k \in 1..n

\* a cell with candidates
AssignCell ==
    /\ pc = "slot"
    /\ si < slots
    /\ Len(available) > 0
    /\ \E k \in 1..Len(available) :
         /\ Choice(Len(available), k)
         /\ LET selected == available[k]
                room == rooms[ri]
            IN /\ duty_table' =
                    [duty_table EXCEPT ![room] = Append(@, selected)]
               /\ teacher_count' =
                    [teacher_count EXCEPT ![selected] = @ + 1]
               /\ slot_assignments' =
                    [slot_assignments EXCEPT ![si] = Append(@, selected)]
         /\ picks' = IF run = 1 THEN Append(picks, k) ELSE picks
    /\ pos' = pos + 1
    /\ si' = si + 1
    /\ UNCHANGED <<argVars, pc, max_duties, ri, result, run, prev, centreVars>>

UnassignedCellBookedInSlot ==
    /\ pc = "slot"
    /\ si < slots
    /\ Len(available) = 0
    /\ duty_table' = [duty_table EXCEPT ![rooms[ri]] = Append(@, Unassigned)]
    /\ slot_assignments' =
         [slot_assignments EXCEPT ![si] = Append(@, Unassigned)]
    /\ si' = si + 1
    /\ UNCHANGED <<argVars, pc, max_duties, teacher_count, ri,
                   result, replayVars, centreVars>>
\* a cell without candidates
UnassignedCell ==
    /\ pc = "slot"
    /\ si < slots
    /\ Len(available) = 0
    /\ duty_table' = [duty_table EXCEPT ![rooms[ri]] = Append(@, Unassigned)]
    /\ si' = si + 1
    /\ UNCHANGED <<argVars, pc, max_duties, teacher_count, slot_assignments, ri,
                   result, replayVars, centreVars>>

\* the slot loop of one room is exhausted
LeaveRoom ==
    /\ pc = "slot"
    /\ si >= slots
    /\ ri' = ri + 1
    /\ pc' = "room"
    /\ UNCHANGED <<argVars, max_duties, duty_table, teacher_count,
                   slot_assignments, si, result, replayVars, centreVars>>

\* return duty_table, max_duties
Return ==
    /\ pc = "room"
    /\ ri > Len(rooms)
    /\ result' = <<duty_table, max_duties>>
    /\ pc' = "done"
    /\ UNCHANGED <<argVars, allocVars, replayVars, centreVars>>

\* the caller calls again with the same arguments and the random source
\* seeded as for the first call
Rerun ==
    /\ entry \in {"generate_duty_list", "generate_slot_duty"}
    /\ pc = "done"
    /\ run = 1
    /\ run' = 2
    /\ prev' = result
    /\ result' = <<>>
    /\ pc' = "call"
    /\ pos' = 0
    /\ UNCHANGED <<argVars, allocVars, picks, centreVars>>

Idle ==
    /\ pc = "call"
    /\ max_duties = 0
    /\ duty_table = <<>>
    /\ teacher_count = <<>>
    /\ slot_assignments = <<>>
    /\ ri = 1
    /\ si = 0
    /\ result = <<>>
    /\ run = 1
    /\ picks = <<>>
    /\ pos = 0
    /\ prev = <<>>
    /\ index = 0
    /\ data = <<>>

Init ==
    /\ entry \in {"generate_duty_list", "generate_slot_duty"}
    /\ rooms \in RoomLists
    /\ teachers \in TeacherLists
    /\ slots \in 0..MaxSlots
    /\ Len(rooms) * slots <= MaxCells
    /\ num_rooms = 0
    /\ Idle

Next ==
    \/ CallDutyList
    \/ CallSlotDuty
    \/ EnterRoom
    \/ AssignCell
    \/ UnassignedCell
    \/ LeaveRoom
    \/ Return

Spec == Init /\ [][Next]_vars

NextReplay == Next \/ Rerun

SpecReplay == Init /\ [][NextReplay]_vars

-----------------------------------------------------------------------------
(* The centre sheet: the "Generate Centre Sheet" handler and              *)
(* generate_centre_duty                                                    *)

\* the orders random.shuffle can leave the list in
ShuffleOrders(s) ==
    LET n == Len(s)
        perms == {q \in [1..n -> 1..n] : \A i, j \in 1..n : i # j => q[i] # q[j]}
    IN {[i \in 1..n |-> s[q[i]]] : q \in perms}

TooFewTeachersOnePerRoom == Len(teachers) < num_rooms
\* if len(teachers) < num_rooms * 2
TooFewTeachers == Len(teachers) < num_rooms * 2

\* st.error("Need at least 2 teachers per room."); st.stop()
RejectCentre ==
    /\ entry = "centre_sheet"
    /\ pc = "button"
    /\ TooFewTeachers
    /\ pc' = "error"
    /\ UNCHANGED <<argVars, allocVars, result, replayVars, centreVars>>

\* the call of generate_centre_duty up to its loop; shuffle works in place
CallCentreDuty ==
    /\ entry = "centre_sheet"
    /\ pc = "button"
    /\ ~TooFewTeachers
    /\ teachers' \in ShuffleOrders(teachers)
    /\ data' = <<>>
    /\ index' = 0
    /\ ri' = 1
    /\ pc' = "rows"
    /\ UNCHANGED <<entry, rooms, slots, max_duties, duty_table, teacher_count,
                   slot_assignments, si, result, replayVars, num_rooms>>

\* one turn of: for room in range(1, num_rooms + 1)
CentreRow ==
    /\ pc = "rows"
    /\ ri <= num_rooms
    /\ IF index + 2 <= Len(teachers)
       THEN /\ data' = Append(data, [ROOM |-> ri,
                                     INVIGILATOR_1 |-> teachers[index + 1],
                                     SIGN_1 |-> "",
                                     INVIGILATOR_2 |-> teachers[index + 2],
                                     SIGN_2 |-> ""])
            /\ index' = index + 2
            /\ ri' = ri + 1
            /\ pc' = pc
       ELSE /\ pc' = "IndexError"
            /\ UNCHANGED <<data, index, ri>>
    /\ UNCHANGED <<argVars, max_duties, duty_table, teacher_count,
                   slot_assignments, si, result, replayVars, num_rooms>>

\* return pd.DataFrame(data, ...); st.dataframe(df)
CentreReturn ==
    /\ pc = "rows"
    /\ ri > num_rooms
    /\ result' = data
    /\ pc' = "shown"
    /\ UNCHANGED <<argVars, allocVars, replayVars, centreVars>>

InitCentre ==
    /\ entry = "centre_sheet"
    /\ rooms = <<>>
    /\ slots = 0
    /\ teachers \in TeacherLists
    /\ num_rooms \in MinRoomsInput..MaxRoomsInput
    /\ num_rooms <= MaxRooms
    /\ max_duties = 0
    /\ duty_table = <<>>
    /\ teacher_count = <<>>
    /\ slot_assignments = <<>>
    /\ ri = 1
    /\ si = 0
    /\ result = <<>>
    /\ run = 1
    /\ picks = <<>>
    /\ pos = 0
    /\ prev = <<>>
    /\ index = 0
    /\ data = <<>>
    /\ pc = "button"

NextCentre ==
    \/ RejectCentre
    \/ CallCentreDuty
    \/ CentreRow
    \/ CentreReturn

SpecCentre == InitCentre /\ [][NextCentre]_vars

-----------------------------------------------------------------------------
(* Properties *)

Returned == entry # "centre_sheet" /\ pc = "done"

\* the cells (room, position) of a table that hold value v
CellsWith(tab, v) ==
    {c \in UNION {{<<r, i>> : i \in 1..Len(tab[r])} : r \in DOMAIN tab} :
        tab[c[1]][c[2]] = v}

\* some teacher stands in two rooms at one slot position
SlotClash(tab) ==
    \E r1, r2 \in DOMAIN tab :
        /\ r1 # r2
        /\ \E i \in 1..Len(tab[r1]) :
             /\ i <= Len(tab[r2])
             /\ tab[r1][i] # Unassigned
             /\ tab[r1][i] = tab[r2][i]

\* some teacher stands twice in one room's list
RoomRepeat(tab) ==
    \E r \in DOMAIN tab :
        \E i, j \in 1..Len(tab[r]) :
            i # j /\ tab[r][i] # Unassigned /\ tab[r][i] = tab[r][j]

\* C1: with distinct teachers, after every processed cell and on return no
\* teacher appears more than once at one slot index across the rooms.
C1_NoTeacherTwiceInSlot ==
    Distinct(teachers) =>
        /\ ~SlotClash(duty_table)
        /\ Returned => ~SlotClash(result[1])

\* two rooms, two slots, two teachers: the teachers must split every slot
C1_Witness ==
    /\ Returned
    /\ Distinct(rooms) /\ Len(rooms) = 2
    /\ Distinct(teachers) /\ Len(teachers) = 2
    /\ slots = 2
    /\ CellsWith(result[1], Unassigned) = {}
    /\ result[1][1][1] = result[1][2][2]

\* C2: with distinct rooms and distinct teachers, after every processed cell
\* and on return no teacher appears more than once in one room's sequence.
C2_NoTeacherTwiceInRoom ==
    (Distinct(rooms) /\ Distinct(teachers)) =>
        /\ ~RoomRepeat(duty_table)
        /\ Returned => ~RoomRepeat(result[1])

\* one room, two slots, one teacher under its capacity 2: the second slot
\* stays unassigned because the teacher is already in the room
C2_Witness ==
    /\ Returned
    /\ Len(rooms) = 1 /\ Len(teachers) = 1 /\ slots = 2
    /\ result[2] = 2
    /\ result[1][1] = <<1, Unassigned>>

C3_Bounded ==
    /\ pc \in {"room", "slot"} =>
         \A t \in DOMAIN teacher_count :
             teacher_count[t] >= 0 /\ teacher_count[t] <= max_duties
    /\ Returned =>
         \A t \in Range(teachers) :
             Cardinality(CellsWith(result[1], t)) <= result[2]

C3_Step ==
    /\ (pc = "call" /\ pc' = "room") =>
         /\ DOMAIN teacher_count' = Range(teachers)
         /\ \A t \in DOMAIN teacher_count' : teacher_count'[t] = 0
    /\ pc \in {"room", "slot"} =>
         /\ DOMAIN teacher_count' = DOMAIN teacher_count
         /\ \A t \in DOMAIN teacher_count :
              \/ teacher_count'[t] = teacher_count[t]
              \/ /\ teacher_count'[t] = teacher_count[t] + 1
                 /\ pc = "slot" /\ si' = si + 1
                 /\ duty_table'[rooms[ri]] = Append(duty_table[rooms[ri]], t)
         /\ Cardinality({t \in DOMAIN teacher_count :
                            teacher_count'[t] # teacher_count[t]}) <= 1

\* C3: every duty count starts at 0, changes only by +1 for the teacher
\* written to the cell just processed, and never exceeds the capacity; on
\* return every teacher occurs at most capacity times in the assignment.
C3_DutyCount == [](C3_Bounded) /\ [][C3_Step]_vars

\* a teacher has reached a capacity of 2
C3_Witness ==
    /\ Returned
    /\ result[2] = 2
    /\ \E t \in Range(teachers) :
         teacher_count[t] = 2 /\ Cardinality(CellsWith(result[1], t)) = 2

\* C4: with an empty teacher list the allocator returns every given room
\* mapped to slotCount Unassigned markers, and capacity 0.
C4_EmptyTeachersAllUnassigned ==
    (Returned /\ Len(teachers) = 0) =>
        /\ result[2] = 0
        /\ DOMAIN result[1] = Range(rooms)
        /\ \A r \in DOMAIN result[1] :
             /\ Len(result[1][r]) = slots
             /\ \A i \in 1..slots : result[1][r][i] = Unassigned

\* (C4, for the record) the copy in app.py does what C4 states
C4_SlotDutyDegrades ==
    entry = "generate_slot_duty" => C4_EmptyTeachersAllUnassigned

\* C5: with distinct rooms and distinct teachers and at least as many
\* teachers as cells, no cell is ever Unassigned.
C5_EnoughTeachersFillEveryCell ==
    (Distinct(rooms) /\ Distinct(teachers)
        /\ Len(teachers) >= Len(rooms) * slots) =>
        /\ CellsWith(duty_table, Unassigned) = {}
        /\ Returned =>
             /\ CellsWith(result[1], Unassigned) = {}
             /\ Len(teachers) > 0 =>
                  /\ DOMAIN result[1] = Range(rooms)
                  /\ \A r \in DOMAIN result[1] : Len(result[1][r]) = slots

\* two rooms, two slots, four teachers: each teacher exactly once
C5_Witness ==
    /\ Returned
    /\ Distinct(rooms) /\ Len(rooms) = 2
    /\ Distinct(teachers) /\ Len(teachers) = 4
    /\ slots = 2
    /\ result[2] = 1
    /\ \A t \in Range(teachers) : Cardinality(CellsWith(result[1], t)) = 1

\* C6 as stated: the returned capacity is 0 iff the teacher count is 0.
C6_CapacityZeroIffNoTeachers ==
    Returned => (result[2] = 0 <=> Len(teachers) = 0)

\* C6 amended: the returned capacity is 0 iff the teacher count is 0 or
\* there is no cell (no room or no slot).
C6_CapacityZeroIffNoTeachersOrNoCells ==
    Returned =>
        (result[2] = 0 <=> (Len(teachers) = 0 \/ Len(rooms) * slots = 0))

\* teachers but no cell: capacity 0
C6_Witness ==
    /\ Returned
    /\ Len(teachers) > 0
    /\ Len(rooms) * slots = 0
    /\ result[2] = 0

\* C7: for teacherCount > 0 the capacity is the least c with
\* teacherCount * c >= roomCount * slotCount, fixed for the whole call.
C7_CapacityIsCeiling ==
    Len(teachers) > 0 =>
        /\ pc \in {"room", "slot", "done"} /\ entry # "centre_sheet" =>
             /\ max_duties * Len(teachers) >= Len(rooms) * slots
             /\ (max_duties - 1) * Len(teachers) < Len(rooms) * slots
        /\ Returned => result[2] = max_duties

\* four cells over three teachers: capacity 2, not 4/3 rounded down
C7_Witness ==
    /\ Returned
    /\ Len(teachers) = 3
    /\ Len(rooms) * slots = 4
    /\ result[2] = 2

\* C8: a second call with the same arguments, driven by the same random
\* source, returns what the first call returned.
C8_SameSourceSameResult ==
    (Returned /\ run = 2) => result = prev

\* the replayed call took three draws, not all of them the first candidate
C8_Witness ==
    /\ Returned /\ run = 2
    /\ pos >= 3
    /\ Len(picks) = pos
    /\ \E i \in 1..Len(picks) : picks[i] > 1
    /\ CellsWith(result[1], Unassigned) # {}

C9_CellStep ==
    (entry # "centre_sheet" /\ pc = "slot" /\ si < slots /\ si' # si) =>
        LET room == rooms[ri]
            E == {t \in Range(teachers) :
                    /\ teacher_count[t] < max_duties
                    /\ t \notin Range(slot_assignments[si])
                    /\ t \notin Range(duty_table[room])}
            cell == duty_table'[room][si + 1]
        IN /\ Len(duty_table[room]) = si
           /\ Len(duty_table'[room]) = si + 1
           /\ si' = si + 1 /\ ri' = ri
           /\ \A r \in DOMAIN duty_table \ {room} :
                duty_table'[r] = duty_table[r]
           /\ cell = Unassigned <=> E = {}
           /\ E # {} =>
                /\ cell \in E
                /\ teacher_count' = [teacher_count EXCEPT ![cell] = @ + 1]
                /\ slot_assignments' =
                     [slot_assignments EXCEPT ![si] = Append(@, cell)]
           /\ cell = Unassigned =>
                /\ teacher_count' = teacher_count
                /\ slot_assignments' = slot_assignments

\* C9: a cell gets Unassigned exactly when no teacher is under capacity and
\* absent from the slot's roster and the room's roster; otherwise it gets
\* such a teacher; writing Unassigned changes no count and no roster.  Cells
\* are processed room by room, slots in increasing order.
C9_CellRule == [][C9_CellStep]_vars

\* one teacher, two rooms, two slots: the teacher is blocked by the room
\* roster in one cell and by the slot roster in another
C9_Witness ==
    /\ Returned
    /\ Len(teachers) = 1
    /\ Distinct(rooms) /\ Len(rooms) = 2
    /\ slots = 2
    /\ result[1][1] = <<1, Unassigned>>
    /\ result[1][2] = <<Unassigned, 1>>

\* the invigilator positions of the sheet, in order
Positions(rows) ==
    [k \in 1..(2 * Len(rows)) |->
        IF k % 2 = 1 THEN rows[(k + 1) \div 2].INVIGILATOR_1
                     ELSE rows[k \div 2].INVIGILATOR_2]

\* C10: generate_centre_duty runs only with at least 2 * num_rooms
\* teachers, never runs out of teachers, and with distinct teachers returns
\* one row per room 1..num_rooms whose invigilator positions are all filled
\* by different teachers.
C10_CentreSheet ==
    entry = "centre_sheet" =>
        /\ pc \in {"rows", "shown"} => Len(teachers) >= 2 * num_rooms
        /\ pc # "IndexError"
        /\ pc = "shown" =>
             /\ Len(result) = num_rooms
             /\ \A i \in 1..num_rooms : result[i].ROOM = i
             /\ \A k \in 1..(2 * num_rooms) :
                  Positions(result)[k] \in Range(teachers)
             /\ Distinct(teachers) => Distinct(Positions(result))

\* two rooms, four distinct teachers, shuffled out of the given order
C10_Witness ==
    /\ entry = "centre_sheet"
    /\ pc = "shown"
    /\ num_rooms = 2
    /\ Distinct(teachers) /\ Len(teachers) = 4
    /\ Len(result) = 2
    /\ result[1].INVIGILATOR_1 # 1

=============================================================================
